---- MODULE Spec2Model ----
(***************************************************************************)
(* A model of the two programs of the repository:                          *)
(*   - lab3_particlefilter/src/particle_filter.py : class ParticleFilter   *)
(*   - lab1_turtlebot/src/driver.py               : class driver           *)
(*                                                                         *)
(* Reals are modelled exactly on small grids:                              *)
(*   - a weight is a reduced fraction <<n, d>> with d > 0; the float NaN   *)
(*     that numpy produces for 0/0 is the value <<0, 0>>;                  *)
(*   - an angle is an integer number of quarter turns (Pi == 2), so that   *)
(*     cos and sin are integers and positions stay on the integer grid;    *)
(*   - a position is a pair of integers.                                   *)
(* self.n_eff, which weight() writes and nothing reads, is left out.       *)
(* Random draws (np.random.rand / randn / uniform) and the value of the    *)
(* Gaussian density product are inputs chosen with \E from small sets.     *)
(***************************************************************************)
EXTENDS Integers, Sequences, FiniteSets, TLC

(***************************************************************************)
(* Bounds of the model                                                     *)
(***************************************************************************)
\* positions are explored inside the window 0..PosMax x 0..PosMax
PosMax == 1
\* weight() is explored while every reduced weight keeps a denominator <= MaxDen
MaxDen == 3
\* np.random.uniform(0.0, 1.0) is drawn from {0/RGrid, ..., (RGrid-1)/RGrid}
RGrid == 4

\* pi, in the model's angle unit (a quarter turn)
Pi == 2

VARIABLES
  \* ---- ParticleFilter ----
  constructed,      \* TRUE when __init__ returned, FALSE when it raised
  map,              \* self.map : sequence of segments <<x1, y1, x2, y2>>
  num,              \* self.num
  odom_lin_sigma,   \* self.odom_lin_sigma, in thousandths of the grid unit
  odom_ang_sigma,   \* self.odom_ang_sigma, in thousandths of a quarter turn
  meas_rng_noise,   \* self.meas_rng_noise
  meas_ang_noise,   \* self.meas_ang_noise
  p_wei,            \* self.p_wei : sequence of fractions
  p_ang,            \* self.p_ang : sequence of angles
  p_xy,             \* self.p_xy  : sequence of <<x, y>>
  moving,           \* self.moving
  \* ---- what the last ParticleFilter call was, and what it was given ----
  lastOp,           \* "init", "predict", "weight", "resample"
  err,              \* the exception the last call raised, or "none"
  last_odom,        \* the odom argument of the last predict()
  last_nlines,      \* lines.shape[0] of the last weight()
  raw_sum,          \* the sign of np.sum(self.p_wei) at line 123 of the last weight()
  last_r,           \* the offset r drawn by the last resample()
  sel,              \* the index m chosen for each slot by the last resample()
  \* ---- driver ----
  x, y, theta,      \* self.x, self.y, self.theta : the goals
  active_goal,      \* self.active_goal
  params_loaded,    \* self.params_loaded
  mov,              \* self.mov
  position,         \* <<self.position_x, self.position_y, self.position_theta>>
  vmsg,             \* self.vmsg : [linear, angular]
  published,        \* the message last handed to self.pub.publish, if any
  shutdown,         \* rospy.signal_shutdown was called
  pc,               \* where the odometry callback stands
  cb_err            \* the exception that ended the last callback, or "none"

pfvars == <<constructed, map, num, odom_lin_sigma, odom_ang_sigma, meas_rng_noise,
            meas_ang_noise, p_wei, p_ang, p_xy, moving,
            lastOp, err, last_odom, last_nlines, raw_sum, last_r, sel>>

drvars == <<x, y, theta, active_goal, params_loaded, mov, position, vmsg, published,
            shutdown, pc, cb_err>>

vars == <<pfvars, drvars>>

(***************************************************************************)
(* Fractions                                                               *)
(***************************************************************************)
RECURSIVE GCD(_, _)
GCD(a, b) == IF b = 0 THEN a ELSE GCD(b, a % b)

Abs(a) == IF a < 0 THEN -a ELSE a

NaN == <<0, 0>>
Inf == <<1, 0>>
IsNaN(f) == f = NaN
IsFinite(f) == f[2] > 0

\* the reduced fraction n/d, d > 0
Frac(n, d) == LET g == GCD(Abs(n), d) IN <<n \div g, d \div g>>

Zero == <<0, 1>>
One == <<1, 1>>

RAdd(a, b) == IF ~IsFinite(a) \/ ~IsFinite(b) THEN NaN
              ELSE Frac(a[1] * b[2] + b[1] * a[2], a[2] * b[2])

RMul(a, b) == IF ~IsFinite(a) \/ ~IsFinite(b) THEN NaN
              ELSE Frac(a[1] * b[1], a[2] * b[2])

\* float division: 0/0 is NaN, x/0 is inf (numpy warns and goes on)
RDiv(a, b) == IF ~IsFinite(a) \/ ~IsFinite(b) THEN NaN
              ELSE IF b[1] = 0 THEN (IF a[1] = 0 THEN NaN ELSE Inf)
              ELSE IF b[1] < 0 THEN Frac(-(a[1] * b[2]), a[2] * (-b[1]))
              ELSE Frac(a[1] * b[2], a[2] * b[1])

\* a > b on floats: FALSE as soon as one side is NaN
RGreater(a, b) == IsFinite(a) /\ IsFinite(b) /\ a[1] * b[2] > b[1] * a[2]

RECURSIVE RSum(_)
RSum(s) == IF s = <<>> THEN Zero ELSE RAdd(Head(s), RSum(Tail(s)))

RECURSIVE RMax(_)
\* np.max : NaN as soon as one element is NaN
RMax(s) == IF Len(s) = 1 THEN Head(s)
           ELSE LET t == RMax(Tail(s)) IN
                IF IsNaN(Head(s)) \/ IsNaN(t) THEN NaN
                ELSE IF RGreater(t, Head(s)) THEN t ELSE Head(s)

(***************************************************************************)
(* Inputs                                                                  *)
(***************************************************************************)
Short == <<0, 0, 1, 0>>
Mid == <<0, 0, 2, 0>>
Long == <<0, 0, 3, 0>>

\* a room map with one segment of length 2 and one of length 1
RoomMap == <<Mid, <<0, 0, 0, 1>>>>
\* a room map with a single segment of length 1
SmallMap == <<<<0, 0, 0, 1>>>>

Config(m, n, ols, oas, mrn, man) ==
  [room_map |-> m, num |-> n, odom_lin_sigma |-> ols, odom_ang_sigma |-> oas,
   meas_rng_noise |-> mrn, meas_ang_noise |-> man, x_init |-> 0, y_init |-> 0]

\* the constructor arguments explored
ConfigSet ==
  { Config(RoomMap, 1, 1000, 1000, 1, 1),
    Config(SmallMap, 2, 10, 10, 1, 1),
    Config(SmallMap, 3, 10, 10, 1, 1),
    Config(<<>>, 2, 10, 10, 1, 1),          \* empty map
    Config(RoomMap, 0, 10, 10, 1, 1),       \* N = 0
    Config(RoomMap, -1, 10, 10, 1, 1),      \* N < 0
    Config(RoomMap, 1, 0, -1000, 1, 1),     \* odom_lin_sigma = 0, odom_ang_sigma < 0
    Config(RoomMap, 1, 1000, 1000, 0, 1) }  \* meas_rng_noise = 0

\* np.random.rand(num) - 0.5 lies in [-0.5, 0.5): on the integer grid, no offset
JitterSet == {0}
\* 2 * np.pi * np.random.rand() lies in [0, 2*pi): the headings drawn at construction
AngDraws == {0, 2 * Pi - 1}
\* np.random.randn draws
ZSet == {0, 1}
\* incremental odometry [delta_x, delta_y, delta_yaw]
OdomSet == {<<0, 0, 0>>, <<1, 0, 0>>, <<0, 1, 0>>, <<0, 0, 1>>}
\* the observations handed to weight()
ObsSet == {<<>>, <<Short>>, <<Long>>, <<Short, Mid>>}
\* the values of wr[k]*wt[k] for a positive noise parameter; 0 is the underflow
\* of np.exp for a large difference
LikSet == {0, 1, 2}

(***************************************************************************)
(* ParticleFilter.__init__                                                 *)
(***************************************************************************)
\* line 40: np.min over an empty map (an array of shape (0,4)) raises
\* ValueError; line 46: 1.0 / num raises for
\* num = 0 and np.ones(num) raises for num < 0
InitRaises(cfg) ==
  IF Len(cfg.room_map) = 0 THEN "ValueError"
  ELSE IF cfg.num = 0 THEN "ZeroDivisionError"
  ELSE IF cfg.num < 0 THEN "ValueError"
  ELSE "none"

PFInit(cfg) ==
  /\ map = cfg.room_map
  /\ num = cfg.num
  /\ odom_lin_sigma = cfg.odom_lin_sigma
  /\ odom_ang_sigma = cfg.odom_ang_sigma
  /\ meas_rng_noise = cfg.meas_rng_noise
  /\ meas_ang_noise = cfg.meas_ang_noise
  /\ err = InitRaises(cfg)
  /\ constructed = (InitRaises(cfg) = "none")
  /\ IF InitRaises(cfg) = "none"
       THEN /\ p_wei = [i \in 1..cfg.num |-> Frac(1, cfg.num)]
            /\ p_ang \in [1..cfg.num -> AngDraws]
            /\ p_xy \in [1..cfg.num ->
                          {<<cfg.x_init + jx, cfg.y_init + jy>> : jx \in JitterSet, jy \in JitterSet}]
       ELSE /\ p_wei = <<>>
            /\ p_ang = <<>>
            /\ p_xy = <<>>
  /\ moving = FALSE
  /\ lastOp = "init"
  /\ last_odom = <<0, 0, 0>>
  /\ last_nlines = 0
  /\ raw_sum = "none"
  /\ last_r = Zero
  /\ sel = <<>>

(***************************************************************************)
(* ParticleFilter.predict                                                  *)
(***************************************************************************)
\* np.cos / np.sin of a whole number of quarter turns
Cos(a) == LET t == a % (2 * Pi) IN IF t = 0 THEN 1 ELSE IF t = Pi THEN -1 ELSE 0
Sin(a) == LET t == (a - 1) % (2 * Pi) IN IF t = 0 THEN 1 ELSE IF t = Pi THEN -1 ELSE 0

\* probabilistic_lib.functions.angle_wrap: the angle brought back to (-pi, pi]
angle_wrap(a) == LET t == a % (2 * Pi) IN IF t > Pi THEN t - 2 * Pi ELSE t

InWindow(xy) == \A i \in DOMAIN xy : /\ xy[i][1] \in 0..PosMax
                                     /\ xy[i][2] \in 0..PosMax

\* a length or angle given in thousandths of the grid unit, on the grid
OnGrid(v) == IF v >= 0 THEN (v + 500) \div 1000 ELSE -((500 - v) \div 1000)

\* lines 69-71: the values of sigma * np.random.randn() on the grid, the noise
\* parameters being given in thousandths of the grid unit
NoiseSet(sigma) == {OnGrid(sigma * z) : z \in ZSet}

\* lines 66-75: the positions moved by odom, nx and ny being the noise added
MovedXY(odom, nx, ny) ==
  [i \in 1..num |->
     <<p_xy[i][1] + odom[1] * Cos(p_ang[i]) - odom[2] * Sin(p_ang[i]) + nx[i],
       p_xy[i][2] + odom[1] * Sin(p_ang[i]) + odom[2] * Cos(p_ang[i]) + ny[i]>>]

\* lines 71, 78-79: the headings turned by odom, nt being the noise added
MovedAng(odom, nt) ==
  [i \in 1..num |-> angle_wrap(p_ang[i] + odom[3] + nt[i])]

\* line 61 with the test of odom[2] forgotten
IsZeroOdomXY(odom) == odom[1] = 0 /\ odom[2] = 0

\* line 61
IsZeroOdom(odom) == odom[1] = 0 /\ odom[2] = 0 /\ odom[3] = 0

Predict ==
  /\ constructed
  /\ \E odom \in OdomSet :
       /\ last_odom' = odom
       /\ IF IsZeroOdom(odom)
            THEN /\ moving' = FALSE
                 /\ UNCHANGED <<p_xy, p_ang>>
            ELSE \E nx \in [1..num -> NoiseSet(odom_lin_sigma)],
                    ny \in [1..num -> NoiseSet(odom_lin_sigma)] :
                 \E xy \in {MovedXY(odom, nx, ny)} :
                   /\ InWindow(xy)
                   /\ p_xy' = xy
                   /\ \E nt \in [1..num -> NoiseSet(odom_ang_sigma)] :
                        p_ang' = MovedAng(odom, nt)
                   /\ moving' = TRUE
  /\ lastOp' = "predict"
  /\ err' = "none"
  /\ last_nlines' = 0
  /\ raw_sum' = "none"
  /\ last_r' = Zero
  /\ sel' = <<>>
  /\ UNCHANGED <<constructed, map, num, odom_lin_sigma, odom_ang_sigma, meas_rng_noise,
                 meas_ang_noise, p_wei>>
  /\ UNCHANGED drvars

(***************************************************************************)
(* ParticleFilter.weight                                                   *)
(***************************************************************************)
\* lines 114-115: the squared Euclidean length of a segment (rooml < measl is
\* decided on the squares, math.sqrt being increasing)
SegLenSq(l) == (l[2] - l[4]) * (l[2] - l[4]) + (l[3] - l[1]) * (l[3] - l[1])

\* lines 109-118: wr[k]*wt[k] for map line k and the measured line, g being the
\* value of the Gaussian product. With meas_rng_noise = 0 the exponent is x/0:
\* np.exp gives 0 or NaN, val_rng is inf, and the product is NaN.
PairLik(k, line, g) ==
  IF SegLenSq(map[k]) < SegLenSq(line) THEN Zero
  ELSE IF meas_rng_noise = 0 THEN NaN
  ELSE <<g, 1>>

\* line 120: np.max(wr*wt)
BestLik(line, g) == RMax([k \in 1..Len(map) |-> PairLik(k, line, g)])

\* the measured lines for which a value of the Gaussian product is read: those
\* that some map line is not shorter than, when meas_rng_noise is not 0
LikDraws(lines) ==
  {j \in 1..Len(lines) :
     /\ meas_rng_noise # 0
     /\ \E k \in 1..Len(map) : ~(SegLenSq(map[k]) < SegLenSq(lines[j]))}

RECURSIVE RawWeight(_, _, _, _)
\* lines 106-120 for one particle: w multiplied by the best likelihood of each
\* measured line j, j+1, ...
RawWeight(w, lines, gi, j) ==
  IF j > Len(lines) THEN w
  ELSE RawWeight(RMul(w, BestLik(lines[j], IF j \in DOMAIN gi THEN gi[j] ELSE 0)),
                 lines, gi, j + 1)

\* line 123 with np.max written for np.sum
NormalizeByMax(raw) == [i \in DOMAIN raw |-> RDiv(raw[i], RMax(raw))]

\* line 123: self.p_wei /= np.sum(self.p_wei)
Normalize(raw) == [i \in DOMAIN raw |-> RDiv(raw[i], RSum(raw))]

\* whether a float is NaN, zero or positive
Sign(f) == IF ~IsFinite(f) THEN "nan" ELSE IF f[1] = 0 THEN "zero" ELSE "pos"

Weight ==
  /\ constructed
  /\ \E lines \in ObsSet :
     \E g \in [1..num -> [LikDraws(lines) -> LikSet]] :
     \E raw \in {[i \in 1..num |-> RawWeight(p_wei[i], lines, g[i], 1)]} :
     \E w \in {Normalize(raw)} :
       /\ \A i \in 1..num : w[i][2] <= MaxDen
       /\ p_wei' = w
       /\ raw_sum' = Sign(RSum(raw))
       /\ last_nlines' = Len(lines)
  /\ lastOp' = "weight"
  /\ err' = "none"
  /\ last_odom' = <<0, 0, 0>>
  /\ last_r' = Zero
  /\ sel' = <<>>
  /\ UNCHANGED <<constructed, map, num, odom_lin_sigma, odom_ang_sigma, meas_rng_noise,
                 meas_ang_noise, p_ang, p_xy, moving>>
  /\ UNCHANGED drvars

(***************************************************************************)
(* ParticleFilter.resample                                                 *)
(***************************************************************************)
\* line 137: c = self.p_wei[1], the weight of the second particle
InitialCum(w) == w[2]

RECURSIVE Advance(_, _, _, _)
\* lines 142-145: while u > c: m = (m+1) % num; c += p_wei[m]
Advance(u, m, c, w) ==
  IF RGreater(u, c)
    THEN LET m2 == (m + 1) % Len(w) IN Advance(u, m2, RAdd(c, w[m2 + 1]), w)
    ELSE <<m, c>>

\* line 141
Threshold(r, i, n) == RAdd(r, Frac(i, n))

\* lines 146-147: xy and ang are the arrays self.p_xy and self.p_ang themselves
\* (lines 134-135 copy nothing), so slot i is written into the array that the
\* later slots are read from
CopySlot(arr, i, m) == [arr EXCEPT ![i + 1] = arr[m + 1]]

RECURSIVE Walk(_, _, _, _, _, _, _, _)
\* lines 140-147, from slot i on
Walk(i, m, c, ang, xy, s, r, w) ==
  IF i = Len(w) THEN [ang |-> ang, xy |-> xy, sel |-> s]
  ELSE LET mc == Advance(Threshold(r, i, Len(w)), m, c, w) IN
       Walk(i + 1, mc[1], mc[2], CopySlot(ang, i, mc[1]), CopySlot(xy, i, mc[1]),
            Append(s, mc[1]), r, w)

\* line 152
UniformWeights(n) == [i \in 1..n |-> Frac(1, n)]

\* the while loop of line 142 ends unless every weight is 0
WalkEnds(w) == \E i \in DOMAIN w : w[i] # Zero

Resample ==
  /\ constructed
  /\ lastOp' = "resample"
  /\ last_odom' = <<0, 0, 0>>
  /\ last_nlines' = 0
  /\ raw_sum' = "none"
  /\ IF num < 2
       THEN \* line 137: index 1 is out of bounds for an array of one element
            /\ err' = "IndexError"
            /\ last_r' = Zero
            /\ sel' = <<>>
            /\ UNCHANGED <<p_wei, p_ang, p_xy>>
       ELSE /\ WalkEnds(p_wei)
            /\ \E k \in 0..(RGrid - 1) :
                 LET r == Frac(k, RGrid * num)
                     res == Walk(0, 0, InitialCum(p_wei), p_ang, p_xy, <<>>, r, p_wei)
                 IN /\ p_ang' = res.ang
                    /\ p_xy' = res.xy
                    /\ sel' = res.sel
                    /\ last_r' = r
                    /\ p_wei' = UniformWeights(num)
            /\ err' = "none"
  /\ UNCHANGED <<constructed, map, num, odom_lin_sigma, odom_ang_sigma, meas_rng_noise,
                 meas_ang_noise, moving>>
  /\ UNCHANGED drvars

(***************************************************************************)
(* driver (lab1_turtlebot): the goals, the odometry callback, load_goals   *)
(***************************************************************************)
\* the goal lists load_goals can read: one goal from the parameters, or the
\* rows of the csv file (which may have none)
GoalLists == {<<>>, <<<<1, 0, 0>>>>, <<<<1, 0, 0>>, <<0, 0, 1>>>>}
\* the poses an odometry message can carry: <<x, y, yaw>>
MsgSet == {<<px, py, pt>> : px \in 0..1, py \in 0..1, pt \in 0..1}

\* lines 33-57: the state __init__ leaves; the subscriber is registered (line 45)
DriverInit ==
  /\ x = <<>>
  /\ y = <<>>
  /\ theta = <<>>
  /\ active_goal = 0
  /\ params_loaded = FALSE
  /\ mov = 0
  /\ position = <<>>
  /\ vmsg = [linear |-> "0", angular |-> "0"]
  /\ published = <<>>
  /\ shutdown = FALSE
  /\ pc = "idle"
  /\ cb_err = "none"

\* self.x[self.active_goal] and its like: the index is inside the array
GoalInRange == 0 <= active_goal /\ active_goal < Len(x)

\* line 94, squared
DistSqToGoal == (position[1] - x[active_goal + 1]) * (position[1] - x[active_goal + 1])
              + (position[2] - y[active_goal + 1]) * (position[2] - y[active_goal + 1])

\* line 108 with goal_th_xy = 0.4 (line 38): dist < 0.4, decided on the squares
has_arrived_xy == 100 * DistSqToGoal < 16

\* lines 101, 115 with goal_th_ang = 0.01 (line 39): a quarter turn is 1.57 rad
has_arrived_ang == 157 * Abs(angle_wrap(theta[active_goal + 1] - position[3])) < 1

\* line 122
has_arrived == has_arrived_xy /\ has_arrived_ang

\* lines 226-227: math.atan2 towards the goal is within 0.01 of the yaw; on the
\* grid that is the goal lying straight ahead along an axis
FacingGoal ==
  LET dx == x[active_goal + 1] - position[1]
      dy == y[active_goal + 1] - position[2]
  IN \/ dy = 0 /\ dx > 0 /\ position[3] = 0
     \/ dx = 0 /\ dy > 0 /\ position[3] = 1
     \/ dy = 0 /\ dx < 0 /\ position[3] = Pi
     \/ dx = 0 /\ dy < 0 /\ position[3] = -1

\* lines 158-180
load_goals ==
  /\ ~params_loaded
  /\ \E goals \in GoalLists :
       /\ x' = x \o [i \in 1..Len(goals) |-> goals[i][1]]
       /\ y' = y \o [i \in 1..Len(goals) |-> goals[i][2]]
       /\ theta' = theta \o [i \in 1..Len(goals) |-> goals[i][3]]
  /\ params_loaded' = TRUE
  /\ UNCHANGED <<active_goal, mov, position, vmsg, published, shutdown, pc, cb_err>>
  /\ UNCHANGED pfvars

\* lines 137-142: an odometry message arrives and read_position stores its pose
callback ==
  /\ pc = "idle"
  /\ ~shutdown
  /\ \E msg \in MsgSet : position' = msg
  /\ pc' = "compute_velocity"
  /\ cb_err' = "none"
  /\ UNCHANGED <<x, y, theta, active_goal, params_loaded, mov, vmsg, published, shutdown>>
  /\ UNCHANGED pfvars

\* lines 143-144 and 210-236: compute_velocity, then publish
compute_velocity ==
  /\ pc = "compute_velocity"
  /\ IF ~GoalInRange
       THEN \* line 217 reads self.x[self.active_goal]: IndexError ends the callback
            /\ cb_err' = "IndexError"
            /\ pc' = "idle"
            /\ UNCHANGED <<mov, vmsg, published>>
       ELSE /\ IF has_arrived_xy
                 THEN /\ vmsg' = [linear |-> "0", angular |-> "0.5"]
                      /\ mov' = 0
                 ELSE IF mov = 0
                 THEN IF FacingGoal
                        THEN /\ vmsg' = [linear |-> "0", angular |-> "0"]
                             /\ mov' = 1
                        ELSE /\ vmsg' = [linear |-> "0", angular |-> "turn"]
                             /\ mov' = mov
                 ELSE /\ vmsg' = [linear |-> "0.15", angular |-> "0"]
                      /\ mov' = mov
            /\ published' = <<vmsg'>>
            /\ pc' = "check_goal"
            /\ UNCHANGED cb_err
  /\ UNCHANGED <<x, y, theta, active_goal, params_loaded, position, shutdown>>
  /\ UNCHANGED pfvars

\* lines 145, 124-129 and 183-193: check_goal, and next_goal when arrived
check_goal ==
  /\ pc = "check_goal"
  /\ IF ~GoalInRange
       THEN /\ cb_err' = "IndexError"
            /\ pc' = "idle"
            /\ UNCHANGED <<active_goal, mov, shutdown>>
       ELSE /\ IF has_arrived
                 THEN /\ active_goal' = active_goal + 1
                      /\ mov' = 0
                      /\ shutdown' = (shutdown \/ Len(x) < active_goal + 1 + 1)
                 ELSE UNCHANGED <<active_goal, mov, shutdown>>
            /\ pc' = "print_goal_and_pose"
            /\ UNCHANGED cb_err
  /\ UNCHANGED <<x, y, theta, params_loaded, position, vmsg, published>>
  /\ UNCHANGED pfvars

\* lines 146 and 80-87
print_goal_and_pose ==
  /\ pc = "print_goal_and_pose"
  /\ cb_err' = IF GoalInRange THEN "none" ELSE "IndexError"
  /\ pc' = "idle"
  /\ UNCHANGED <<x, y, theta, active_goal, params_loaded, mov, position, vmsg, published,
                 shutdown>>
  /\ UNCHANGED pfvars

(***************************************************************************)
(* The particle filter, driven by any sequence of calls                    *)
(***************************************************************************)
Init == DriverInit /\ \E cfg \in ConfigSet : PFInit(cfg)

Next == Predict \/ Weight \/ Resample

Spec == Init /\ [][Next]_vars

(***************************************************************************)
(* The driver: the main thread loads the goals while the subscriber's      *)
(* thread runs the callback for each odometry message                      *)
(***************************************************************************)
DriverStart == DriverInit /\ PFInit(Config(<<>>, 1, 10, 10, 1, 1))

DriverNext == load_goals \/ callback \/ compute_velocity \/ check_goal \/ print_goal_and_pose

SpecDriver == DriverStart /\ [][DriverNext]_vars

(***************************************************************************)
(* Properties                                                              *)
(***************************************************************************)
\* the constructor arguments the specification calls valid: a map that is not
\* empty, N > 0 and four positive noise parameters
ValidConfig ==
  /\ Len(map) > 0
  /\ num > 0
  /\ odom_lin_sigma > 0
  /\ odom_ang_sigma > 0
  /\ meas_rng_noise > 0
  /\ meas_ang_noise > 0

\* C1: after a weight() call whose raw weight sum is not zero, and after a
\* resample() call, the weights sum to 1.
C1_WeightsSumToOne ==
  (ValidConfig /\ (\/ lastOp = "weight" /\ raw_sum # "zero"
                   \/ lastOp = "resample"))
    => RSum(p_wei) = One

\* C2: a weight() call with a non-empty observation whose raw weights are all
\* zero reports a DivergenceError and leaves no weight not-a-number.
C2_DivergenceReported ==
  (ValidConfig /\ lastOp = "weight" /\ last_nlines > 0 /\ raw_sum = "zero")
    => (err = "DivergenceError" /\ \A i \in DOMAIN p_wei : IsFinite(p_wei[i]))

\* C3: after resample(), slot i holds the pose that the particle selected for
\* slot i had before resample() started.
C3_NoReadAfterWrite ==
  [][(ValidConfig /\ lastOp' = "resample" /\ err' = "none")
       => \A i \in 1..num : /\ p_ang'[i] = p_ang[sel'[i] + 1]
                            /\ p_xy'[i] = p_xy[sel'[i] + 1]]_vars

RECURSIVE RefAdvance(_, _, _, _)
\* the walk of the specification: starting from c = weight[m], advance m and add
\* weight[m] to c while c < u
RefAdvance(u, m, c, w) ==
  IF RGreater(u, c)
    THEN LET m2 == (m + 1) % Len(w) IN RefAdvance(u, m2, RAdd(c, w[m2 + 1]), w)
    ELSE <<m, c>>

RECURSIVE RefWalk(_, _, _, _, _)
RefWalk(i, m, c, r, w) ==
  IF i = Len(w) THEN <<>>
  ELSE LET mc == RefAdvance(RAdd(r, Frac(i, Len(w))), m, c, w) IN
       <<mc[1]>> \o RefWalk(i + 1, mc[1], mc[2], r, w)

\* C4: with weights summing to 1, resample() selects for slot i the index found
\* by starting at m = 0, c = weight[0] and advancing m while c < r + i/N.
C4_SystematicWalk ==
  [][(ValidConfig /\ lastOp' = "resample" /\ err' = "none" /\ RSum(p_wei) = One)
       => sel' = RefWalk(0, 0, p_wei[1], last_r', p_wei)]_vars

\* C5: after any resample() call there are exactly N particles and every weight
\* is 1/N.
C5_UniformAfterResample ==
  (ValidConfig /\ lastOp = "resample")
    => /\ Len(p_wei) = num /\ Len(p_ang) = num /\ Len(p_xy) = num
       /\ \A i \in 1..num : p_wei[i] = Frac(1, num)

\* C6: after any predict() call every heading lies in (-pi, pi].
C6_HeadingWrapped ==
  (ValidConfig /\ lastOp = "predict")
    => \A i \in 1..num : -Pi < p_ang[i] /\ p_ang[i] <= Pi

\* C7: predict() with the all-zero delta leaves every position, heading and
\* weight unchanged and sets moving to false; with any other delta it sets
\* moving to true.
C7_ZeroDeltaIsStationary ==
  [][(lastOp' = "predict")
       => IF last_odom' = <<0, 0, 0>>
            THEN /\ p_xy' = p_xy /\ p_ang' = p_ang /\ p_wei' = p_wei
                 /\ moving' = FALSE
            ELSE moving' = TRUE]_vars

\* C7 witness: a predict() with the zero delta has run on a filter that had moved
\* its particles apart before
C7_Witness ==
  /\ constructed /\ lastOp = "predict" /\ last_odom = <<0, 0, 0>> /\ ~moving
  /\ \E i \in 1..num : p_xy[i] # <<0, 0>>

C9_ConfigurationRejected ==
  (~ValidConfig) => (~constructed /\ lastOp = "init")

\* C10: whenever the callback is about to read the active goal (in
\* compute_velocity, check_goal or print_goal_and_pose), 0 <= active_goal < the
\* number of goals loaded.
C10_ActiveGoalInBounds ==
  (pc \in {"compute_velocity", "check_goal", "print_goal_and_pose"})
    => (0 <= active_goal /\ active_goal < Len(x))

====
